---- MODULE Spec2Model ----
(***************************************************************************)
(* Northwind-SQL-Copilot: the pipeline orchestrator (src/src/pipeline.py), *)
(* its cache store (src/src/cache.py), the structured execution record     *)
(* (src/src/models.py, src/src/logger_utils.py) and the command line entry *)
(* point (src/main.py).                                                    *)
(*                                                                         *)
(* Text is a sequence of one-character strings, so that strip(), lower()   *)
(* and the fence-removing regular expression are computed character by     *)
(* character.  Fixed literals of the program ("Failed", "Error: ") are     *)
(* single elements of such a sequence.                                     *)
(***************************************************************************)
EXTENDS Integers, Sequences, FiniteSets, TLC

VARIABLES
    file,        \* the backing file query_cache.json (config.CACHE_FILE)
    alive,       \* a TextToSQLPipeline has been constructed and is usable
    cm,          \* pipeline.cache : CacheManager (enabled, _cache)
    last,        \* what the last call did: response, finalized record, calls
    structCount, \* structured records appended to the daily log file
    firstResp,   \* per key: {answer, sql_query} returned by the run that cached it
    cleared,     \* clear() has returned and no set has been made since
    nOps,        \* number of calls made so far
    san_arg,     \* _sanitize_result: its argument
    canonical,   \* _sanitize_result: the text it returned
    raw_sql,     \* the text of the SQL backend handed to the sanitizers
    cleaned,     \* what _clean_sql and _clean_sql_query returned for it
    rn,          \* a run of the try block in progress: position, clock, record
    console,     \* lines the console handler of the logger has written
    logfile      \* lines the file handler has appended to the daily log file

pipelineVars == <<file, alive, cm, last, structCount, firstResp, cleared, nOps>>
sanitizeVars == <<san_arg, canonical>>
cleanVars == <<raw_sql, cleaned>>
logVars == <<console, logfile>>

vars == <<pipelineVars, sanitizeVars, cleanVars, rn, logVars>>

(***************************************************************************)
(* Bounds and input sets.                                                  *)
(***************************************************************************)
MaxOps == 2

\* questions a caller passes: "a", " A\n" (the same key "a") and "aa"
Questions ==
    { <<"a">>, <<" ", "A", "\n">>, <<"a", "a">> }

\* texts the SQL backend returns
\* the backquote character (written "tick": the lexer admits no backquote)
Tick == "tick"
F3 == <<Tick, Tick, Tick>>
RawSqlOutputs ==
    { F3 \o <<"S", "Q", "L", "\n", "S", "\n">> \o F3,
      F3 \o <<"\n">> \o F3 }

\* texts the answer backend returns
RawAnswers == { <<"y">>, <<" ", "n", "\n">> }

\* str(e) of the exceptions the collaborators raise
ErrDescs == { <<"e">> }

\* wall-clock durations of a run, in hundredths of a second
Durations == {0, 1}

(***************************************************************************)
(* Optional values (None / a text).                                        *)
(***************************************************************************)
None == [set |-> FALSE, val |-> <<>>]
Some(s) == [set |-> TRUE, val |-> s]

\* Python truthiness of an Optional[str]: None and "" are falsy
Truthy(o) == o.set /\ o.val # <<>>

(***************************************************************************)
(* str.strip() and str.lower()                                             *)
(***************************************************************************)
Whitespace == {" ", "\n"}

RECURSIVE LStrip(_)
LStrip(s) == IF s # <<>> /\ Head(s) \in Whitespace THEN LStrip(Tail(s)) ELSE s

RECURSIVE RStrip(_)
RStrip(s) ==
    IF s # <<>> /\ s[Len(s)] \in Whitespace
    THEN RStrip(SubSeq(s, 1, Len(s) - 1))
    ELSE s

Strip(s) == RStrip(LStrip(s))

LowerChar(c) ==
    CASE c = "A" -> "a"
      [] c = "S" -> "s"
      [] c = "Q" -> "q"
      [] c = "L" -> "l"
      [] OTHER   -> c

Lower(s) == [i \in 1..Len(s) |-> LowerChar(s[i])]

\* cache.py: question.strip().lower()
NormalizeMutCaseOnly(q) == Lower(q)
Normalize(q) == Lower(Strip(q))

(***************************************************************************)
(* pipeline.py: _clean_sql                                                 *)
(*   re.sub(r'```sql|```', '', query, flags=re.IGNORECASE).strip()         *)
(***************************************************************************)
IsFenceAt(s) == Len(s) >= 3 /\ SubSeq(s, 1, 3) = F3

\* a bug that would match the tag in lower case only
IsTaggedFenceAtMutCaseSensitive(s) ==
    /\ Len(s) >= 6
    /\ SubSeq(s, 1, 6) = F3 \o <<"s", "q", "l">>

IsTaggedFenceAt(s) ==
    /\ Len(s) >= 6
    /\ SubSeq(s, 1, 3) = F3
    /\ Lower(SubSeq(s, 4, 6)) = <<"s", "q", "l">>

RECURSIVE RemoveFences(_)
RemoveFences(s) ==
    IF s = <<>> THEN <<>>
    ELSE IF IsTaggedFenceAt(s) THEN RemoveFences(SubSeq(s, 7, Len(s)))
    ELSE IF IsFenceAt(s) THEN RemoveFences(SubSeq(s, 4, Len(s)))
    ELSE <<Head(s)>> \o RemoveFences(Tail(s))

CleanSql(query) == Strip(RemoveFences(query))

(***************************************************************************)
(* text_to_sql_pipeline.py: _clean_sql_query                               *)
(*   cleaned = query.strip()                                               *)
(*   cleaned = re.sub(r'```sql', '', cleaned, flags=re.IGNORECASE)         *)
(*   cleaned = re.sub(r'```', '', cleaned)                                 *)
(*   return cleaned.strip()                                                *)
(***************************************************************************)
RECURSIVE RemoveTagged(_)
RemoveTagged(s) ==
    IF s = <<>> THEN <<>>
    ELSE IF IsTaggedFenceAt(s) THEN RemoveTagged(SubSeq(s, 7, Len(s)))
    ELSE <<Head(s)>> \o RemoveTagged(Tail(s))

RECURSIVE RemoveUntagged(_)
RemoveUntagged(s) ==
    IF s = <<>> THEN <<>>
    ELSE IF IsFenceAt(s) THEN RemoveUntagged(SubSeq(s, 4, Len(s)))
    ELSE <<Head(s)>> \o RemoveUntagged(Tail(s))

CleanSqlQuery(query) == Strip(RemoveUntagged(RemoveTagged(Strip(query))))

\* texts of the SQL backend: a SQL text, bare or inside a markdown code fence
\* (opening fence, optional language tag, newline, text, newline, closing fence)
MaxSqlLen == 3
SqlChars == {"s", "Q", "l", "\n", Tick}
SqlTexts == UNION { [1..n -> SqlChars] : n \in 0..MaxSqlLen }
FenceTags == { <<>>, <<"s", "q", "l">>, <<"S", "Q", "L">>, <<"S", "q", "l">> }
Fenced(sql, tag) == F3 \o tag \o <<"\n">> \o sql \o <<"\n">> \o F3
BackendOutputs ==
    { [sql |-> t, wrap |-> "bare", tag |-> <<>>, text |-> t] : t \in SqlTexts } \cup
    { [sql |-> t, wrap |-> "fenced", tag |-> g, text |-> Fenced(t, g)] :
        t \in SqlTexts, g \in FenceTags }

(***************************************************************************)
(* pipeline.py: _sanitize_result.  A raw result is a sequence of rows, a   *)
(* row a sequence of scalars; a scalar carries its str() and its repr().   *)
(***************************************************************************)
Int42 == [str |-> <<"4", "2">>, repr |-> <<"4", "2">>]
Int1  == [str |-> <<"1">>, repr |-> <<"1">>]
StrA  == [str |-> <<"a">>, repr |-> <<"'", "a", "'">>]

RECURSIVE JoinRepr(_)
JoinRepr(row) ==
    IF row = <<>> THEN <<>>
    ELSE IF Len(row) = 1 THEN Head(row).repr
    ELSE Head(row).repr \o <<",", " ">> \o JoinRepr(Tail(row))

\* str() of a tuple: (42,)  (1, 'a')
StrRow(row) ==
    IF Len(row) = 1 THEN <<"(">> \o Head(row).repr \o <<",", ")">>
    ELSE <<"(">> \o JoinRepr(row) \o <<")">>

RECURSIVE JoinRows(_)
JoinRows(rows) ==
    IF rows = <<>> THEN <<>>
    ELSE IF Len(rows) = 1 THEN StrRow(Head(rows))
    ELSE StrRow(Head(rows)) \o <<",", " ">> \o JoinRows(Tail(rows))

\* str() of a list of tuples
StrRows(rows) == <<"[">> \o JoinRows(rows) \o <<"]">>

\* a bug that would never unwrap
SanitizeResultMutNeverUnwraps(rows) ==
    IF rows = <<>> THEN <<"[", "]">> ELSE StrRows(rows)

SanitizeResult(raw_result) ==
    IF raw_result = <<>> THEN <<"[", "]">>
    ELSE IF Len(raw_result) > 0 /\ Len(raw_result[1]) = 1
         THEN raw_result[1][1].str
    ELSE StrRows(raw_result)

\* results the database returns for a statement it accepts
RawResults == { << <<Int42>> >> }

\* what eval(raw_res) hands to _sanitize_result: None, or a list of tuples
PyNone == [kind |-> "none", rows |-> <<>>]
PyList(rows) == [kind |-> "list", rows |-> rows]

\* line 48, `not raw_result`, is true of None as of the empty list
SanitizeValue(v) ==
    IF v.kind = "none" THEN <<"[", "]">> ELSE SanitizeResult(v.rows)

\* bounds of the results handed to _sanitize_result
MaxRows == 2
MaxCols == 2
Scalars == {Int42, Int1, StrA}
RowsOfWidth(w) == [1..w -> Scalars]
\* rows of a result set all have the width of the SELECT list
ResultSets ==
    {PyNone, PyList(<<>>)} \cup
    { PyList(rows) : rows \in UNION { [1..n -> RowsOfWidth(w)] :
                                        n \in 1..MaxRows, w \in 1..MaxCols } }

(***************************************************************************)
(* The backing file and cache.py: CacheManager                             *)
(***************************************************************************)
EmptyMap == [k \in {} |-> None]

Put(m, k, v) == [x \in (DOMAIN m) \cup {k} |-> IF x = k THEN v ELSE m[x]]

\* kinds of content of the backing file
\*   absent       no such file
\*   map          a JSON object of entries (what _save_cache writes)
\*   corrupt      not JSON (a write that failed part-way leaves this)
\*   nonmap       JSON, but not an object (a list, a number, null)
\*   undecodable  not UTF-8 text
AbsentFile == [kind |-> "absent", data |-> EmptyMap]
CorruptFile == [kind |-> "corrupt", data |-> EmptyMap]
MapFile(m) == [kind |-> "map", data |-> m]

EmptyCache == [ismap |-> TRUE, data |-> EmptyMap]

\* outcomes of the operating system calls on the backing file
ReadOutcomes == {"ok", "ioerror"}
WriteOutcomes == {"ok", "openfails", "writefails"}
RemoveOutcomes == {"ok", "oserror"}

\* except (json.JSONDecodeError, IOError) of _load_cache
LoadCatches(exc) == exc \in {"JSONDecodeError", "IOError"}

\* _load_cache: what json.load of the file gives, or the exception it raises
LoadAttempt(f, rd) ==
    IF rd = "ioerror" THEN [exc |-> "IOError", cache |-> EmptyCache]
    ELSE CASE f.kind = "map"         -> [exc |-> "", cache |-> [ismap |-> TRUE, data |-> f.data]]
           [] f.kind = "nonmap"      -> [exc |-> "", cache |-> [ismap |-> FALSE, data |-> EmptyMap]]
           [] f.kind = "corrupt"     -> [exc |-> "JSONDecodeError", cache |-> EmptyCache]
           [] f.kind = "undecodable" -> [exc |-> "UnicodeDecodeError", cache |-> EmptyCache]
           [] OTHER                  -> [exc |-> "IOError", cache |-> EmptyCache]

\* __init__ + _load_cache: [raised, cache]
LoadCache(enabled, f, rd) ==
    IF ~enabled THEN [raised |-> "", cache |-> EmptyCache]
    ELSE IF f.kind = "absent" THEN [raised |-> "", cache |-> EmptyCache]
    ELSE LET a == LoadAttempt(f, rd) IN
         IF a.exc = "" THEN [raised |-> "", cache |-> a.cache]
         ELSE IF LoadCatches(a.exc) THEN [raised |-> "", cache |-> EmptyCache]
         ELSE [raised |-> a.exc, cache |-> EmptyCache]

\* except IOError of _save_cache
SaveCatchesMutNone(exc) == FALSE
SaveCatches(exc) == exc = "IOError"

\* _save_cache: [raised, file]
SaveCache(enabled, cache, f, wr) ==
    IF ~enabled THEN [raised |-> "", file |-> f]
    ELSE CASE wr = "ok" -> [raised |-> "", file |-> MapFile(cache.data)]
           [] wr = "openfails" ->
                [raised |-> IF SaveCatches("IOError") THEN "" ELSE "IOError",
                 file |-> f]
           [] OTHER ->
                [raised |-> IF SaveCatches("IOError") THEN "" ELSE "IOError",
                 file |-> CorruptFile]

NoEntry == [answer |-> <<>>, sql_query |-> <<>>]

\* get: [raised, found, entry]
CacheGet(c, question) ==
    IF ~c.enabled THEN [raised |-> "", found |-> FALSE, entry |-> NoEntry]
    ELSE IF ~c.ismap THEN [raised |-> "AttributeError", found |-> FALSE, entry |-> NoEntry]
    ELSE IF Normalize(question) \in DOMAIN c.data
         THEN [raised |-> "", found |-> TRUE, entry |-> c.data[Normalize(question)]]
    ELSE [raised |-> "", found |-> FALSE, entry |-> NoEntry]

\* set: [raised, cache, file]
CacheSetMutIgnoreEnabled(c, f, question, response_data, wr) ==
    LET c2 == [c EXCEPT !.data = Put(c.data, Normalize(question), response_data)]
    IN  [raised |-> "", cache |-> c2,
         file |-> IF wr = "ok" THEN MapFile(c2.data) ELSE f]

CacheSetMutRawKey(c, f, question, response_data, wr) ==
    IF ~c.enabled THEN [raised |-> "", cache |-> c, file |-> f]
    ELSE IF ~c.ismap THEN [raised |-> "TypeError", cache |-> c, file |-> f]
    ELSE LET c2 == [c EXCEPT !.data = Put(c.data, question, response_data)]
             sv == SaveCache(c2.enabled, c2, f, wr)
         IN  [raised |-> sv.raised, cache |-> c2, file |-> sv.file]

CacheSet(c, f, question, response_data, wr) ==
    IF ~c.enabled THEN [raised |-> "", cache |-> c, file |-> f]
    ELSE IF ~c.ismap THEN [raised |-> "TypeError", cache |-> c, file |-> f]
    ELSE LET c2 == [c EXCEPT !.data = Put(c.data, Normalize(question), response_data)]
             sv == SaveCache(c2.enabled, c2, f, wr)
         IN  [raised |-> sv.raised, cache |-> c2, file |-> sv.file]

\* clear: [raised, cache, file]
CacheClearMutKeepsFile(c, f, rm) ==
    [raised |-> "", cache |-> [c EXCEPT !.ismap = TRUE, !.data = EmptyMap], file |-> f]

\* a bug that would make clear return at once on a disabled store, as
\* _load_cache, _save_cache, get and set do
CacheClearMutHonoursEnabled(c, f, rm) ==
    LET c2 == [c EXCEPT !.ismap = TRUE, !.data = EmptyMap] IN
    IF ~c.enabled THEN [raised |-> "", cache |-> c, file |-> f]
    ELSE IF f.kind = "absent" THEN [raised |-> "", cache |-> c2, file |-> f]
    ELSE IF rm = "ok" THEN [raised |-> "", cache |-> c2, file |-> AbsentFile]
    ELSE [raised |-> "OSError", cache |-> c2, file |-> f]

CacheClear(c, f, rm) ==
    LET c2 == [c EXCEPT !.ismap = TRUE, !.data = EmptyMap] IN
    IF f.kind = "absent" THEN [raised |-> "", cache |-> c2, file |-> f]
    ELSE IF rm = "ok" THEN [raised |-> "", cache |-> c2, file |-> AbsentFile]
    ELSE [raised |-> "OSError", cache |-> c2, file |-> f]

MkCache(enabled, cache) ==
    [enabled |-> enabled, ismap |-> cache.ismap, data |-> cache.data]

(***************************************************************************)
(* models.py: ExecutionLog and QueryResponse                               *)
(***************************************************************************)
NewLog(question) ==
    [present |-> TRUE, user_prompt |-> question,
     sql_prompt |-> FALSE, nlp_prompt |-> FALSE,
     sql_query |-> None, result |-> None, final_answer |-> None,
     error |-> None, success |-> FALSE, total_duration |-> 0]

NoLog == [NewLog(<<>>) EXCEPT !.present = FALSE]

NoResponse ==
    [present |-> FALSE, question |-> <<>>, answer |-> <<>>, sql_query |-> <<>>,
     execution_time |-> 0, from_cache |-> FALSE]

(***************************************************************************)
(* pipeline.py: TextToSQLPipeline.run                                      *)
(***************************************************************************)
\* the steps inside the try block that call a collaborator, in program order
Steps == <<"get_table_info", "sql_llm", "db_run", "eval", "nlp_llm">>
StepSet == {Steps[i] : i \in 1..Len(Steps)}

\* what the collaborators do during one run
DefaultSql == F3 \o <<"S", "Q", "L", "\n", "S", "\n">> \o F3
DefaultRows == << <<Int42>> >>
DefaultAnswer == <<"y">>
DefaultDesc == <<"e">>
RunEnvs ==
    { e \in [failAt : StepSet \cup {"none"}, desc : ErrDescs, rawSql : RawSqlOutputs,
             rows : RawResults, rawAnswer : RawAnswers, wr : WriteOutcomes,
             dur : Durations] :
        /\ e.failAt = "none" => e.desc = DefaultDesc
        /\ e.failAt \in {"get_table_info", "sql_llm"} => e.rawSql = DefaultSql
        /\ e.failAt \in {"get_table_info", "sql_llm", "db_run", "eval"}
              => e.rows = DefaultRows
        /\ e.failAt # "none" => e.rawAnswer = DefaultAnswer /\ e.wr = "ok" }

DefaultEnv ==
    [failAt |-> "none", desc |-> DefaultDesc, rawSql |-> DefaultSql,
     rows |-> DefaultRows, rawAnswer |-> DefaultAnswer, wr |-> "ok", dur |-> 1]

\* a bug that would re-raise without the placeholder
ExecFailedMutNoPlaceholder(log) == log

\* line 98-100: the inner handler of the execution stage
ExecFailed(log) == [log EXCEPT !.result = Some(<<"Error executing query">>)]

\* lines 79-122, the body of the try block:
\* [log, exc, desc, calls, cache, file, stage]; exc = "" when nothing was raised
TryBody(c, f, question, env) ==
    LET log0 == NewLog(question)
        log1 == [log0 EXCEPT !.sql_prompt = TRUE]
        log2 == [log1 EXCEPT !.sql_query = Some(CleanSql(env.rawSql))]
        log3 == [log2 EXCEPT !.result = Some(SanitizeResult(env.rows))]
        log4 == [log3 EXCEPT !.nlp_prompt = TRUE]
        log5 == [log4 EXCEPT !.final_answer = Some(Strip(env.rawAnswer)),
                             !.success = TRUE]
        st == CacheSet(c, f, question,
                       [answer |-> log5.final_answer.val,
                        sql_query |-> log5.sql_query.val], env.wr)
        fail(log, n) == [log |-> log, exc |-> "Exception", desc |-> env.desc,
                         calls |-> SubSeq(Steps, 1, n), cache |-> c, file |-> f,
                         stage |-> env.failAt]
    IN  CASE env.failAt = "get_table_info" -> fail(log0, 1)
          [] env.failAt = "sql_llm"        -> fail(log1, 2)
          [] env.failAt = "db_run"         -> fail(ExecFailed(log2), 3)
          [] env.failAt = "eval"           -> fail(ExecFailed(log2), 4)
          [] env.failAt = "nlp_llm"        -> fail(log4, 5)
          [] OTHER ->
               [log |-> log5, exc |-> st.raised, desc |-> <<st.raised>>,
                calls |-> Steps, cache |-> st.cache, file |-> st.file,
                stage |-> IF st.raised = "" THEN "none" ELSE "cache_set"]

\* line 124: except Exception
HandlerCatchesMutNotSynthesis(stage) == stage # "nlp_llm"
HandlerCatches(stage) == TRUE

\* line 126: f"Error: {str(e)}"
ErrorAnswer(desc) == <<"Error: ">> \o desc

\* lines 125-126: the handler
Handle(log, desc) ==
    [log EXCEPT !.error = Some(desc), !.final_answer = Some(ErrorAnswer(desc))]

\* line 136: log_entry.sql_query or "Failed"
ResponseSql(o) == IF Truthy(o) THEN o.val ELSE <<"Failed">>

\* lines 133-138
BuildResponse(question, log) ==
    [present |-> TRUE, question |-> question, answer |-> log.final_answer.val,
     sql_query |-> ResponseSql(log.sql_query),
     execution_time |-> log.total_duration, from_cache |-> FALSE]

\* lines 69-75
CachedResponse(question, cached_data) ==
    [present |-> TRUE, question |-> question, answer |-> cached_data.answer,
     sql_query |-> cached_data.sql_query, execution_time |-> 0, from_cache |-> TRUE]

\* lines 129-131: how many times the finally block hands the record to log_struct
FinallyLogsMutOnlyOnSuccess(log) == IF log.success THEN 1 ELSE 0
FinallyLogs(log) == 1

\* the one element of a singleton set
The(S) == CHOOSE x \in S : TRUE

\* lines 124-138 for a run that entered the try block: b is what TryBody gave,
\* log the record as the handler and the finally block leave it
AfterTry(question, b, caught, log) ==
    [raised |-> IF b.exc # "" /\ ~caught THEN b.exc ELSE "",
     response |-> IF b.exc # "" /\ ~caught THEN NoResponse
                  ELSE BuildResponse(question, log),
     log |-> IF FinallyLogs(log) > 0 THEN log ELSE NoLog,
     structs |-> FinallyLogs(log),
     calls |-> b.calls, hit |-> FALSE, stage |-> b.stage,
     cache |-> b.cache, file |-> b.file]

\* lines 124-131: the handler, then the finally block stamps the duration
Finalize(b, caught, dur) ==
    [(IF caught THEN Handle(b.log, b.desc) ELSE b.log) EXCEPT !.total_duration = dur]

\* the whole of run:
\* [raised, response, log, structs, calls, hit, stage, cache, file]
RunResult(c, f, question, env) ==
    The({ IF g.raised # "" THEN
              [raised |-> g.raised, response |-> NoResponse, log |-> NoLog,
               structs |-> 0, calls |-> <<>>, hit |-> FALSE, stage |-> "cache_get",
               cache |-> c, file |-> f]
          ELSE IF g.found THEN
              [raised |-> "", response |-> CachedResponse(question, g.entry),
               log |-> NoLog, structs |-> 0, calls |-> <<>>, hit |-> TRUE,
               stage |-> "none", cache |-> c, file |-> f]
          ELSE
              The({ The({ The({ AfterTry(question, b, caught, log) :
                                  log \in {Finalize(b, caught, env.dur)} }) :
                          caught \in {b.exc # "" /\ HandlerCatches(b.stage)} }) :
                    b \in {TryBody(c, f, question, env)} })
          : g \in {CacheGet(c, question)} })

(***************************************************************************)
(* State machine                                                           *)
(***************************************************************************)
Drop(m, k) == [x \in (DOMAIN m) \ {k} |-> m[x]]

EntryOf(answer, sql_query) == [answer |-> answer, sql_query |-> sql_query]

\* entries a caller stores through CacheManager.set
Entries == { EntryOf(<<"y">>, <<"S">>), EntryOf(<<"n">>, <<"S">>) }

\* backing files left by earlier processes, or put there by hand
InitFiles ==
    { AbsentFile, CorruptFile,
      [kind |-> "nonmap", data |-> EmptyMap],
      [kind |-> "undecodable", data |-> EmptyMap],
      MapFile(Put(EmptyMap, <<"a">>, EntryOf(<<"y">>, <<"S">>))) }

NoLast ==
    [op |-> "none", question |-> <<>>, raised |-> "", exited |-> FALSE,
     clearedFirst |-> FALSE, response |-> NoResponse, log |-> NoLog, structs |-> 0,
     calls |-> <<>>, hit |-> FALSE, stage |-> "none", found |-> FALSE,
     entry |-> NoEntry, enabled |-> FALSE, dropped |-> {}, removed |-> FALSE]

LastOfRun(op, question, enabled, r) ==
    [NoLast EXCEPT !.op = op, !.question = question, !.raised = r.raised,
                   !.enabled = enabled,
                   !.response = r.response, !.log = r.log, !.structs = r.structs,
                   !.calls = r.calls, !.hit = r.hit, !.stage = r.stage]

\* no argument handed to _sanitize_result, to the SQL sanitizers; no run of
\* the try block in progress; nothing logged; no pipeline constructed
NoCleaned == [a |-> None, b |-> None]
NoOutput == [sql |-> <<>>, wrap |-> "bare", tag |-> <<>>, text |-> <<>>]
NoRun ==
    [pc |-> "none", now |-> 0, start_total |-> 0, t0 |-> 0, calls |-> <<>>,
     completed |-> {}, failedAt |-> "none",
     sql_generation_time |-> 0, query_execution_time |-> 0,
     answer_generation_time |-> 0, total_duration |-> 0,
     success |-> FALSE, error |-> FALSE]
SanitizeIdle == san_arg = PyNone /\ canonical = None
CleanIdle == raw_sql = NoOutput /\ cleaned = NoCleaned
StageIdle == rn = NoRun
LogIdle == console = <<>> /\ logfile = <<>>
PipelineIdle ==
    /\ file = AbsentFile
    /\ alive = FALSE
    /\ cm = MkCache(FALSE, EmptyCache)
    /\ last = NoLast
    /\ structCount = 0
    /\ firstResp = EmptyMap
    /\ cleared = FALSE
    /\ nOps = 0

\* the state after TextToSQLPipeline(use_cache) was constructed over a backing
\* file (no pipeline where the constructor raised)
Init ==
    /\ SanitizeIdle /\ CleanIdle /\ StageIdle /\ LogIdle
    /\ \E f \in InitFiles, use_cache \in BOOLEAN :
           LET ld == LoadCache(use_cache, f, "ok") IN
           /\ file = f
           /\ alive = (ld.raised = "")
           /\ cm = IF ld.raised = "" THEN MkCache(use_cache, ld.cache)
                   ELSE MkCache(FALSE, EmptyCache)
           /\ last = NoLast
           /\ structCount = 0
           /\ firstResp = EmptyMap
           /\ cleared = FALSE
           /\ nOps = 0

\* pipeline.py lines 19-25: TextToSQLPipeline(use_cache)
Construct(use_cache, dbok, rd) ==
    /\ nOps' = nOps + 1
    /\ LET ld == LoadCache(use_cache, file, rd)
           exc == IF ~dbok THEN "Exception" ELSE ld.raised
       IN  /\ alive' = (exc = "")
           /\ cm' = IF exc = "" THEN MkCache(use_cache, ld.cache)
                    ELSE MkCache(FALSE, EmptyCache)
           /\ last' = [NoLast EXCEPT !.op = "construct", !.raised = exc,
                                     !.enabled = use_cache]
    /\ firstResp' = EmptyMap
    /\ UNCHANGED <<file, structCount, cleared>>

\* the run wrote the cache: what its response said goes into firstResp
Remember(fr, c, question, r) ==
    IF r.raised = "" /\ ~r.hit /\ r.log.success /\ c.enabled
    THEN Put(fr, Normalize(question),
             EntryOf(r.response.answer, r.response.sql_query))
    ELSE fr

\* the run reached line 119, cache.set
SetCalled(r) == ~r.hit /\ r.stage \in {"none", "cache_set"}

\* pipeline.py lines 55-138: pipeline.run(question)
Run(question, env) ==
    /\ alive
    /\ (CacheGet(cm, question).found \/ CacheGet(cm, question).raised # "")
          => env = DefaultEnv
    /\ nOps' = nOps + 1
    /\ \E r \in {RunResult(cm, file, question, env)} :
       /\ cm' = r.cache
       /\ file' = r.file
       /\ last' = LastOfRun("run", question, cm.enabled, r)
       /\ structCount' = structCount + r.structs
       /\ firstResp' = Remember(firstResp, cm, question, r)
       /\ cleared' = (cleared /\ ~SetCalled(r))
    /\ UNCHANGED alive

\* cache.py lines 35-39: pipeline.cache.get(question)
Get(question) ==
    /\ alive
    /\ nOps' = nOps + 1
    /\ \E g \in {CacheGet(cm, question)} :
       last' = [NoLast EXCEPT !.op = "get", !.question = question,
                              !.raised = g.raised, !.found = g.found,
                              !.entry = g.entry, !.enabled = cm.enabled]
    /\ UNCHANGED <<file, alive, cm, structCount, firstResp, cleared>>

\* cache.py lines 41-47: pipeline.cache.set(question, response_data)
Set(question, response_data, wr) ==
    /\ alive
    /\ nOps' = nOps + 1
    /\ \E st \in {CacheSet(cm, file, question, response_data, wr)} :
       /\ cm' = st.cache
       /\ file' = st.file
       /\ last' = [NoLast EXCEPT !.op = "set", !.question = question,
                                 !.raised = st.raised, !.entry = response_data,
                                 !.enabled = cm.enabled]
    /\ firstResp' = Drop(firstResp, Normalize(question))
    /\ cleared' = FALSE
    /\ UNCHANGED <<alive, structCount>>

\* cache.py lines 49-53: pipeline.cache.clear()
Clear(rm) ==
    /\ alive
    /\ nOps' = nOps + 1
    /\ \E cl \in {CacheClear(cm, file, rm)} :
       /\ cm' = cl.cache
       /\ file' = cl.file
       /\ last' = [NoLast EXCEPT !.op = "clear", !.raised = cl.raised,
                                 !.enabled = cm.enabled, !.dropped = DOMAIN cm.data,
                                 !.removed = (file.kind # "absent"
                                              /\ cl.file.kind = "absent")]
       /\ cleared' = (cl.raised = "")
    /\ firstResp' = EmptyMap
    /\ UNCHANGED <<alive, structCount>>

\* main.py lines 8-54: one invocation of the command line program.  The
\* process ends with it, and with it the pipeline it constructed.
Main(question, clear_cache, no_cache, dbok, rd, rm, env) ==
    /\ nOps' = nOps + 1
    /\ \E tmp \in {LoadCache(TRUE, file, rd)} :
       \E cl \in {CacheClear(MkCache(TRUE, tmp.cache), file, rm)} :
       \E excClear \in {IF ~clear_cache THEN ""
                        ELSE IF tmp.raised # "" THEN tmp.raised ELSE cl.raised} :
       \E f1 \in {IF clear_cache /\ excClear = "" THEN cl.file ELSE file} :
       \E ld \in {LoadCache(~no_cache, f1, rd)} :
           IF excClear # "" THEN
               /\ last' = [NoLast EXCEPT !.op = "main", !.question = question,
                                         !.raised = excClear]
               /\ UNCHANGED <<file, structCount, cleared>>
           ELSE IF ~dbok \/ ld.raised # "" THEN
               /\ last' = [NoLast EXCEPT !.op = "main", !.question = question,
                                         !.exited = TRUE,
                                         !.clearedFirst = clear_cache]
               /\ file' = f1
               /\ cleared' = (cleared \/ clear_cache)
               /\ UNCHANGED structCount
           ELSE
               \E r \in {RunResult(MkCache(~no_cache, ld.cache), f1, question, env)} :
               /\ last' = [LastOfRun("main", question, ~no_cache, r)
                              EXCEPT !.clearedFirst = clear_cache,
                                     !.dropped = IF clear_cache THEN DOMAIN tmp.cache.data
                                                 ELSE {}]
               /\ file' = r.file
               /\ structCount' = structCount + r.structs
               /\ cleared' = ((cleared \/ clear_cache) /\ ~SetCalled(r))
    /\ alive' = FALSE
    /\ cm' = MkCache(FALSE, EmptyCache)
    /\ firstResp' = EmptyMap

\* what the collaborators do during the run of one invocation of main
MainEnvs ==
    { e \in RunEnvs : e.failAt \in {"none", "db_run"} /\ e.rawSql = DefaultSql
                      /\ e.rawAnswer = DefaultAnswer /\ e.wr = "ok" /\ e.dur = 1 }

\* the command lines and what the operating system does during one invocation
MainArgs ==
    { a \in [question : Questions, clear_cache : BOOLEAN, no_cache : BOOLEAN,
             dbok : BOOLEAN, rd : ReadOutcomes, rm : RemoveOutcomes, env : MainEnvs] :
        /\ ~a.clear_cache => a.rm = "ok"
        /\ ~a.dbok => a.env = DefaultEnv /\ a.rd = "ok" /\ ~a.no_cache }

\* what the calls on the pipeline leave alone
Aside == UNCHANGED <<sanitizeVars, cleanVars, rn, logVars>>

ConstructCall ==
    nOps < MaxOps /\ Aside /\ \E u \in BOOLEAN, d \in BOOLEAN, rd \in ReadOutcomes :
                        Construct(u, d, rd)

RunCall == nOps < MaxOps /\ Aside /\ \E q \in Questions, env \in RunEnvs : Run(q, env)

GetCall == nOps < MaxOps /\ Aside /\ \E q \in Questions : Get(q)

SetCall ==
    nOps < MaxOps /\ Aside /\ \E q \in Questions, e \in Entries, wr \in WriteOutcomes :
                        Set(q, e, wr)

ClearCall == nOps < MaxOps /\ Aside /\ \E rm \in RemoveOutcomes : Clear(rm)

MainCall ==
    nOps < MaxOps /\ Aside /\ \E a \in MainArgs :
        Main(a.question, a.clear_cache, a.no_cache, a.dbok, a.rd, a.rm, a.env)

Next == ConstructCall \/ RunCall \/ GetCall \/ SetCall \/ ClearCall \/ MainCall

Spec == Init /\ [][Next]_vars

(***************************************************************************)
(* _sanitize_result applied to the results of ResultSets                   *)
(***************************************************************************)
SanitizeInit ==
    /\ PipelineIdle /\ CleanIdle /\ StageIdle /\ LogIdle
    /\ san_arg \in ResultSets
    /\ canonical = None

\* pipeline.py lines 47-53: _sanitize_result(raw_result)
SanitizeCall ==
    /\ ~canonical.set
    /\ canonical' = Some(SanitizeValue(san_arg))
    /\ UNCHANGED <<pipelineVars, san_arg, cleanVars, rn, logVars>>

SanitizeNext == SanitizeCall

SanitizeSpec == SanitizeInit /\ [][SanitizeNext]_vars

(***************************************************************************)
(* The two SQL sanitizers applied to the texts of BackendOutputs           *)
(***************************************************************************)
CleanInit ==
    /\ PipelineIdle /\ SanitizeIdle /\ StageIdle /\ LogIdle
    /\ raw_sql \in BackendOutputs
    /\ cleaned = NoCleaned

\* pipeline.py lines 44-45: _clean_sql(query)
CleanSqlCall ==
    /\ ~cleaned.a.set
    /\ cleaned' = [cleaned EXCEPT !.a = Some(CleanSql(raw_sql.text))]
    /\ UNCHANGED <<pipelineVars, sanitizeVars, raw_sql, rn, logVars>>

\* text_to_sql_pipeline.py lines 73-82: _clean_sql_query(query)
CleanSqlQueryCall ==
    /\ ~cleaned.b.set
    /\ cleaned' = [cleaned EXCEPT !.b = Some(CleanSqlQuery(raw_sql.text))]
    /\ UNCHANGED <<pipelineVars, sanitizeVars, raw_sql, rn, logVars>>

CleanNext == CleanSqlCall \/ CleanSqlQueryCall

CleanSpec == CleanInit /\ [][CleanNext]_vars

(***************************************************************************)
(* pipeline.py lines 63-131 statement by statement: a non-cached run with  *)
(* its clock.  The clock counts ticks, TicksPerUnit ticks to the hundredth *)
(* of a second that round(..., 2) keeps.                                   *)
(***************************************************************************)
MaxTime == 6
TicksPerUnit == 3

\* round(time.time() - t0, 2), in hundredths of a second (no tie: the number
\* of ticks to the hundredth is odd)
Round(d) == (2 * d + TicksPerUnit) \div (2 * TicksPerUnit)

\* the three stages, in program order
StageOrder == <<"sql_generation", "query_execution", "answer_synthesis">>

StageAside == UNCHANGED <<pipelineVars, sanitizeVars, cleanVars, logVars>>

StageInit ==
    /\ PipelineIdle /\ SanitizeIdle /\ CleanIdle /\ LogIdle
    /\ rn = [NoRun EXCEPT !.pc = "start"]

\* time passes while the run is under way
TimePasses ==
    /\ rn.pc \notin {"none", "start", "done"}
    /\ rn.now < MaxTime
    /\ rn' = [rn EXCEPT !.now = @ + 1]
    /\ StageAside

\* lines 63-77: start_total = time.time(); the cache has no entry
StartRun ==
    /\ rn.pc = "start"
    /\ rn' = [rn EXCEPT !.pc = "gen", !.start_total = rn.now]
    /\ StageAside

\* lines 81-87: t0 = time.time(); schema, prompt, self.sql_llm.invoke
BeginGenerate ==
    /\ rn.pc = "gen"
    /\ rn' = [rn EXCEPT !.pc = "in_gen", !.t0 = rn.now,
                        !.calls = Append(@, "sql_generation")]
    /\ StageAside

\* lines 87-91: the backend returns (ok) or raises
EndGenerate(ok) ==
    /\ rn.pc = "in_gen"
    /\ rn' = IF ok
             THEN [rn EXCEPT !.pc = "exec",
                             !.sql_generation_time = Round(rn.now - rn.t0),
                             !.completed = @ \cup {"sql_generation"}]
             ELSE [rn EXCEPT !.pc = "handler", !.failedAt = "sql_generation"]
    /\ StageAside

\* lines 94-96: t0 = time.time(); self.db.run
BeginExecute ==
    /\ rn.pc = "exec"
    /\ rn' = [rn EXCEPT !.pc = "in_exec", !.t0 = rn.now,
                        !.calls = Append(@, "query_execution")]
    /\ StageAside

\* a bug that would run the statement again after a failure
EndExecuteMutRetries(ok) ==
    /\ rn.pc = "in_exec"
    /\ rn' = IF ok
             THEN [rn EXCEPT !.pc = "synth",
                             !.query_execution_time = Round(rn.now - rn.t0),
                             !.completed = @ \cup {"query_execution"}]
             ELSE [rn EXCEPT !.pc = "exec"]
    /\ StageAside

\* lines 96-101: db.run and eval return (ok), or one raises and the inner
\* handler re-raises
EndExecute(ok) ==
    /\ rn.pc = "in_exec"
    /\ rn' = IF ok
             THEN [rn EXCEPT !.pc = "synth",
                             !.query_execution_time = Round(rn.now - rn.t0),
                             !.completed = @ \cup {"query_execution"}]
             ELSE [rn EXCEPT !.pc = "handler", !.failedAt = "query_execution"]
    /\ StageAside

\* lines 104-112: t0 = time.time(); prompt, self.nlp_llm.invoke
BeginSynthesize ==
    /\ rn.pc = "synth"
    /\ rn' = [rn EXCEPT !.pc = "in_synth", !.t0 = rn.now,
                        !.calls = Append(@, "answer_synthesis")]
    /\ StageAside

\* a bug that would record the duration of the stage also when it raised
EndSynthesizeMutTimesFailure(ok) ==
    /\ rn.pc = "in_synth"
    /\ rn' = IF ok
             THEN [rn EXCEPT !.pc = "finally",
                             !.answer_generation_time = Round(rn.now - rn.t0),
                             !.completed = @ \cup {"answer_synthesis"},
                             !.success = TRUE]
             ELSE [rn EXCEPT !.pc = "handler", !.failedAt = "answer_synthesis",
                             !.answer_generation_time = Round(rn.now - rn.t0)]
    /\ StageAside

\* lines 112-122: the backend returns (ok) or raises; success, cache.set
EndSynthesize(ok) ==
    /\ rn.pc = "in_synth"
    /\ rn' = IF ok
             THEN [rn EXCEPT !.pc = "finally",
                             !.answer_generation_time = Round(rn.now - rn.t0),
                             !.completed = @ \cup {"answer_synthesis"},
                             !.success = TRUE]
             ELSE [rn EXCEPT !.pc = "handler", !.failedAt = "answer_synthesis"]
    /\ StageAside

\* lines 124-127: except Exception
Handler ==
    /\ rn.pc = "handler"
    /\ rn' = [rn EXCEPT !.pc = "finally", !.error = TRUE]
    /\ StageAside

\* lines 129-131: finally
Finally ==
    /\ rn.pc = "finally"
    /\ rn' = [rn EXCEPT !.pc = "done",
                        !.total_duration = Round(rn.now - rn.start_total)]
    /\ StageAside

GenerateReturns == \E ok \in BOOLEAN : EndGenerate(ok)
ExecuteReturns == \E ok \in BOOLEAN : EndExecute(ok)
SynthesizeReturns == \E ok \in BOOLEAN : EndSynthesize(ok)

StageNext ==
    \/ TimePasses \/ StartRun
    \/ BeginGenerate \/ GenerateReturns
    \/ BeginExecute \/ ExecuteReturns
    \/ BeginSynthesize \/ SynthesizeReturns
    \/ Handler \/ Finally

StageSpec == StageInit /\ [][StageNext]_vars

(***************************************************************************)
(* logger_utils.py: DailyLogger, and the lines the pipeline hands to it    *)
(***************************************************************************)
MaxLines == 6

\* the messages of pipeline.py lines 20, 31, 34, 68, 77, 91, 127 and the
\* record of log_struct (logger_utils.py line 55)
InitializingLine == "INFO Initializing Pipeline"
ConnectedLine == "INFO Database connected successfully."
ConnectFailedLine == "ERROR DB Connection failed"
CachedLine == "INFO Processing (Cached)"
ProcessingLine == "INFO Processing"
GeneratedLine == "INFO SQL Generated"
PipelineErrorLine == "ERROR Pipeline Error"
RecordLine == "INFO [EXECUTION_RECORD]"

\* the two handlers of the logger, each with what it has written
Channels(con, fil) == [console |-> con, logfile |-> fil]

\* log_info, log_error (lines 39-43): every handler of the logger gets the line
LogInfo(ch, message) ==
    Channels(Append(ch.console, message), Append(ch.logfile, message))
LogError(ch, message) ==
    Channels(Append(ch.console, message), Append(ch.logfile, message))

\* log_struct (lines 45-64): the console handler is taken off the logger
\* while the record is logged, so the file handler alone gets it
LogStruct(ch, record) == Channels(ch.console, Append(ch.logfile, record))

LogCall(fn, line) == [fn |-> fn, line |-> line]

RECURSIVE Emit(_, _)
Emit(ch, logcalls) ==
    IF logcalls = <<>> THEN ch
    ELSE LET c == Head(logcalls)
             ch2 == CASE c.fn = "log_info"  -> LogInfo(ch, c.line)
                      [] c.fn = "log_error" -> LogError(ch, c.line)
                      [] OTHER              -> LogStruct(ch, c.line)
         IN  Emit(ch2, Tail(logcalls))

\* pipeline.py lines 20-35: the logger calls of the constructor
ConstructLogCalls(dbok) ==
    <<LogCall("log_info", InitializingLine),
      IF dbok THEN LogCall("log_info", ConnectedLine)
      ELSE LogCall("log_error", ConnectFailedLine)>>

\* n times the same logger call
Times(n, c) == [i \in 1..n |-> c]

\* a bug that would hand a record to log_struct on a cache hit as well
RunLogCallsMutRecordOnHit(r) ==
    IF r.stage = "cache_get" THEN <<>>
    ELSE IF r.hit THEN <<LogCall("log_info", CachedLine),
                         LogCall("log_struct", RecordLine)>>
    ELSE <<LogCall("log_info", ProcessingLine)>>
         \o Times(r.structs, LogCall("log_struct", RecordLine))

\* pipeline.py lines 68, 77, 91, 127, 131: the logger calls of one run, r
\* being what RunResult gave for it
RunLogCalls(r) ==
    IF r.stage = "cache_get" THEN <<>>
    ELSE IF r.hit THEN <<LogCall("log_info", CachedLine)>>
    ELSE <<LogCall("log_info", ProcessingLine)>>
         \o (IF r.stage \notin {"get_table_info", "sql_llm"}
             THEN <<LogCall("log_info", GeneratedLine)>> ELSE <<>>)
         \o (IF r.raised = "" /\ r.stage # "none"
             THEN <<LogCall("log_error", PipelineErrorLine)>> ELSE <<>>)
         \o Times(r.structs, LogCall("log_struct", RecordLine))

\* the collaborators during the runs whose log lines are followed
LogEnvs ==
    { e \in RunEnvs : e.rawSql = DefaultSql /\ e.rawAnswer = DefaultAnswer
                      /\ e.wr = "ok" /\ e.dur = 1 }

LogAside == UNCHANGED <<sanitizeVars, cleanVars, rn>>

\* the state after TextToSQLPipeline(use_cache) was constructed, the database
\* being reachable, in a process whose logger had written nothing yet
LogInit ==
    /\ SanitizeIdle /\ CleanIdle /\ StageIdle
    /\ \E f \in {AbsentFile, MapFile(Put(EmptyMap, <<"a">>, EntryOf(<<"y">>, <<"S">>)))},
          use_cache \in BOOLEAN :
          /\ file = f
          /\ cm = MkCache(use_cache, LoadCache(use_cache, f, "ok").cache)
    /\ alive = TRUE
    /\ last = NoLast
    /\ structCount = 0
    /\ firstResp = EmptyMap
    /\ cleared = FALSE
    /\ nOps = 0
    /\ \E ch \in {Emit(Channels(<<>>, <<>>), ConstructLogCalls(TRUE))} :
          console = ch.console /\ logfile = ch.logfile

\* pipeline.py lines 19-35: TextToSQLPipeline(use_cache), with its log lines
LogConstruct(use_cache, dbok) ==
    /\ Construct(use_cache, dbok, "ok")
    /\ \E ch \in {Emit(Channels(console, logfile), ConstructLogCalls(dbok))} :
          console' = ch.console /\ logfile' = ch.logfile
    /\ LogAside

\* pipeline.py lines 55-138: pipeline.run(question), with its log lines
LogRun(question, env) ==
    /\ Run(question, env)
    /\ \E ch \in {Emit(Channels(console, logfile),
                        RunLogCalls(RunResult(cm, file, question, env)))} :
          console' = ch.console /\ logfile' = ch.logfile
    /\ LogAside

LogConstructCall ==
    Len(logfile) < MaxLines /\ \E u \in BOOLEAN, d \in BOOLEAN : LogConstruct(u, d)

LogRunCall ==
    Len(logfile) < MaxLines /\ \E q \in Questions, env \in LogEnvs : LogRun(q, env)

LogNext == LogConstructCall \/ LogRunCall

LogSpec == LogInit /\ [][LogNext]_vars

(***************************************************************************)
(* Properties                                                              *)
(***************************************************************************)
\* a step that is a call of pipeline.run
RunStep == nOps' = nOps + 1 /\ last'.op = "run"
SetStep == nOps' = nOps + 1 /\ last'.op = "set"

\* the run entered the try block and was not served from the cache
NonCached(l) == l.op = "run" /\ ~l.hit /\ l.stage \in StepSet \cup {"none"}
FailedRun(l) == l.op = "run" /\ l.stage \in StepSet

\* C1: whichever of the five steps of the try block raises (or none), run
\* raises nothing to its caller and returns a QueryResponse for the question.
C1_RunReturnsResponse ==
    (last.op = "run" /\ last.stage \in StepSet \cup {"none"})
        => /\ last.raised = ""
           /\ last.response.present
           /\ last.response.question = last.question

C1_Witness ==
    /\ last.op = "run" /\ last.stage = "nlp_llm"
    /\ last.raised = "" /\ last.response.present

\* C2: with the cache enabled, once run(Q) has succeeded, a later run of a
\* question with the same trimmed, lowercased text returns the answer and the
\* sql_query of that first response, execution_time 0, from_cache true, and
\* calls no backend and no database.
C2_CacheIdempotence ==
    [][(RunStep /\ cm.enabled /\ Normalize(last'.question) \in DOMAIN firstResp)
          => /\ last'.response.present
             /\ last'.response.from_cache
             /\ last'.response.execution_time = 0
             /\ last'.response.answer = firstResp[Normalize(last'.question)].answer
             /\ last'.response.sql_query = firstResp[Normalize(last'.question)].sql_query
             /\ last'.calls = <<>>]_vars

\* C3: a run that fails at SQL generation, query execution or answer synthesis
\* leaves the in-memory map and the backing file as they were; a successful run
\* writes the one entry {answer, sql_query} under the normalized question (to
\* the map of an enabled store, and the whole map to the file when the write
\* goes through; a failed write leaves the file as it was or cut short).
C3_CacheWrittenOnlyBySuccess ==
    [][RunStep =>
          /\ last'.stage \in StepSet => cm' = cm /\ file' = file
          /\ (last'.stage = "none" /\ ~last'.hit) =>
                IF cm.enabled
                THEN /\ cm'.data = Put(cm.data, Lower(Strip(last'.question)),
                                       EntryOf(last'.log.final_answer.val,
                                               last'.log.sql_query.val))
                     /\ file' \in {MapFile(cm'.data), file, CorruptFile}
                ELSE cm' = cm /\ file' = file]_vars

C3_Witness ==
    /\ FailedRun(last) /\ last.stage = "nlp_llm" /\ last.enabled
    /\ Normalize(last.question) \notin DOMAIN cm.data
    /\ cm.data # EmptyMap
    /\ file = MapFile(cm.data)

\* C4: every non-cached run, successful or failed at any stage, hands exactly
\* one ExecutionLog record to log_struct before it returns.
C4_OneRecordPerRun ==
    NonCached(last) => last.structs = 1 /\ last.log.present /\ last.response.present

C4_Witness == NonCached(last) /\ last.stage = "db_run" /\ last.structs = 1

\* C5: a finalized ExecutionLog has either success with final_answer set and
\* error unset, or no success with error set, and never both or neither.
LogSucceeded(l) == l.success /\ l.final_answer.set /\ ~l.error.set
LogFailed(l) == ~l.success /\ l.error.set
C5_SuccessXorError ==
    last.log.present =>
        /\ LogSucceeded(last.log) \/ LogFailed(last.log)
        /\ ~(LogSucceeded(last.log) /\ LogFailed(last.log))
        /\ ~(last.log.success /\ last.log.error.set)

\* the cache write that follows success = True failed on the file
C5_Witness ==
    /\ last.op = "run" /\ last.log.present /\ last.log.success
    /\ last.enabled /\ file # MapFile(cm.data)

\* C6: a failed run answers "Error: " + description with from_cache false; its
\* sql_query is the cleaned generated SQL when execution or synthesis failed,
\* and is "Failed" exactly when SQL generation failed.
C6_FailureResponse ==
    FailedRun(last) =>
        /\ last.response.answer = <<"Error: ">> \o last.log.error.val
        /\ ~last.response.from_cache
        /\ last.stage \in {"db_run", "eval", "nlp_llm"}
              => last.response.sql_query = last.log.sql_query.val
        /\ last.response.sql_query = <<"Failed">>
              <=> last.stage \in {"get_table_info", "sql_llm"}

\* the trimmed, lowercased text of each question of Questions, written out
ExpectedKey(q) ==
    CASE q = <<"a">>            -> <<"a">>
      [] q = <<" ", "A", "\n">> -> <<"a">>
      [] q = <<"a", "a">>       -> <<"a", "a">>
      [] OTHER                  -> q

\* C7: after set(q1, e) on an enabled store, get(q2) returns e for every q2
\* whose trimmed, lowercased text equals that of q1, whatever was stored under
\* that key before (last write wins), and for every other q2 returns what it
\* returned before the set: set and get use the same strip-then-lowercase key.
C7_KeyNormalization ==
    [][(SetStep /\ cm.enabled /\ last'.raised = "")
          => \A q2 \in Questions :
                IF ExpectedKey(q2) = ExpectedKey(last'.question)
                THEN /\ CacheGet(cm', q2).found
                     /\ CacheGet(cm', q2).entry = last'.entry
                ELSE CacheGet(cm', q2) = CacheGet(cm, q2)]_vars

C7_Witness ==
    /\ last.op = "set" /\ last.enabled /\ last.raised = ""
    /\ last.question = <<" ", "A", "\n">>
    /\ CacheGet(cm, <<"a">>).found
    /\ CacheGet(cm, <<"a">>).entry = last.entry
    /\ ~CacheGet(cm, <<"a", "a">>).found

\* C8: once clear() has returned, and until the next set, the backing file does
\* not exist and get finds no entry for any question; an invocation of main
\* that clears the cache first does not serve its question from the cache.
C8_ClearEmptiesStore ==
    /\ cleared =>
          /\ file.kind = "absent"
          /\ alive => \A q \in Questions :
                         CacheGet(cm, q).raised = "" /\ ~CacheGet(cm, q).found
    /\ (last.op = "main" /\ last.clearedFirst /\ last.response.present)
          => ~last.hit /\ ~last.response.from_cache

C8_Witness ==
    /\ last.op = "clear" /\ last.raised = "" /\ cleared /\ alive
    /\ last.enabled /\ last.dropped # {}
    /\ file.kind = "absent"
    /\ \A q \in Questions : ~CacheGet(cm, q).found

\* C9: on a store constructed with enabled = false, get finds no entry (also
\* when the backing file holds the question), set and run change neither the
\* in-memory map nor the backing file, and no run returns from_cache = true.
C9_DisabledMode ==
    [][(nOps' = nOps + 1 /\ last'.op \in {"get", "set", "run", "main"}
           /\ ~last'.enabled)
          => /\ ~last'.found
             /\ ~last'.hit
             /\ ~last'.response.from_cache
             /\ last'.op # "main" => cm' = cm /\ file' = file]_vars

C9_Witness ==
    /\ last.op = "get" /\ ~last.enabled /\ last.raised = ""
    /\ file.kind = "map"
    /\ Normalize(last.question) \in DOMAIN file.data
    /\ ~last.found

\* C10: no failure to read, write or remove the backing file escapes a
\* CacheManager operation, pipeline.run or the clear-cache toggle of main.
C10_NoCacheIOFailureEscapes == last.raised \notin {"IOError", "OSError"}

(***************************************************************************)
(* Properties of _sanitize_result                                          *)
(***************************************************************************)
\* the text "[(1, 'a')]", written out
Text_1_a == <<"[", "(", "1", ",", " ", "'", "a", "'", ")", "]">>

ManyColumns(rows) == rows # <<>> /\ \A i \in 1..Len(rows) : Len(rows[i]) > 1
OneColumn(rows) == rows # <<>> /\ \A i \in 1..Len(rows) : Len(rows[i]) = 1

\* C11: _sanitize_result gives "[]" for an absent (None) and for an empty
\* result, "42" for the single row (42,), "[(1, 'a')]" for the row (1, "a"),
\* and for every result whose rows have more than one column the str() of the
\* whole list of rows.
C11_ResultCanonicalization ==
    canonical.set =>
        /\ (san_arg.kind = "none" \/ san_arg.rows = <<>>)
              => canonical.val = <<"[", "]">>
        /\ san_arg = PyList(<< <<Int42>> >>) => canonical.val = <<"4", "2">>
        /\ san_arg = PyList(<< <<Int1, StrA>> >>) => canonical.val = Text_1_a
        /\ (san_arg.kind = "list" /\ ManyColumns(san_arg.rows))
              => canonical.val = StrRows(san_arg.rows)

C11_Witness ==
    /\ canonical.set
    /\ san_arg = PyList(<< <<Int1, StrA>> >>)
    /\ canonical.val = Text_1_a

\* C14: for a result of two or more rows that are all 1-tuples the canonical
\* result is the str() of the whole list of rows; only a result of one row
\* with one column is reduced to the str() of its scalar.
C14_MultiRowNotUnwrapped ==
    (canonical.set /\ san_arg.kind = "list" /\ OneColumn(san_arg.rows))
        => IF Len(san_arg.rows) >= 2
           THEN canonical.val = StrRows(san_arg.rows)
           ELSE canonical.val = san_arg.rows[1][1].str

(***************************************************************************)
(* Properties of the SQL sanitizers                                        *)
(***************************************************************************)
NoTick(t) == \A i \in 1..Len(t) : t[i] # Tick

\* C12: for a SQL text S without backquotes, handed over bare, inside an
\* untagged fence or inside a fence tagged sql in any letter case, _clean_sql
\* returns S without its leading and trailing whitespace, and
\* _clean_sql_query returns the same text.
C12_FenceStripping ==
    NoTick(raw_sql.sql) =>
        /\ cleaned.a.set => cleaned.a.val = Strip(raw_sql.sql)
        /\ cleaned.b.set => cleaned.b.val = Strip(raw_sql.sql)
        /\ (cleaned.a.set /\ cleaned.b.set) => cleaned.a.val = cleaned.b.val

C12_Witness ==
    /\ cleaned.a.set /\ cleaned.b.set
    /\ raw_sql.wrap = "fenced" /\ raw_sql.tag = <<"S", "Q", "L">>
    /\ raw_sql.sql = <<"\n", "s", "Q">>
    /\ cleaned.a.val = <<"s", "Q">>
    /\ cleaned.b.val = <<"s", "Q">>

(***************************************************************************)
(* Properties of the stages of a run and of their durations                *)
(***************************************************************************)
StageIndex(st) == CHOOSE i \in 1..Len(StageOrder) : StageOrder[i] = st
StageDuration(r, i) ==
    CASE i = 1 -> r.sql_generation_time
      [] i = 2 -> r.query_execution_time
      [] OTHER -> r.answer_generation_time
Ended(r) == r.pc \in {"handler", "finally", "done"}

\* C13: the stages invoked so far are the first stages of SQL generation,
\* query execution, answer synthesis, in that order and each once; every stage
\* before an invoked one has completed; once a stage has failed it is the last
\* one invoked, and the run ends with error set and without success; a run in
\* which none failed has invoked all three and ends in success.
C13_StageOrdering ==
    /\ Len(rn.calls) <= Len(StageOrder)
    /\ rn.calls = SubSeq(StageOrder, 1, Len(rn.calls))
    /\ \A i \in 1..Len(rn.calls) : \A j \in 1..(i - 1) : StageOrder[j] \in rn.completed
    /\ rn.failedAt # "none" =>
          /\ rn.calls # <<>> /\ rn.calls[Len(rn.calls)] = rn.failedAt
          /\ Ended(rn) /\ ~rn.success
          /\ rn.pc = "done" => rn.error
    /\ (rn.pc = "done" /\ rn.failedAt = "none") =>
          rn.calls = StageOrder /\ rn.success /\ ~rn.error

C13_Witness ==
    /\ rn.pc = "done" /\ rn.failedAt = "query_execution"
    /\ rn.calls = <<"sql_generation", "query_execution">>
    /\ rn.error /\ ~rn.success

\* C16: in a finalized record, total_duration is at least the sum of
\* sql_generation_time, query_execution_time and answer_generation_time.
C16_DurationConsistency ==
    rn.pc = "done" =>
        rn.total_duration >= rn.sql_generation_time + rn.query_execution_time
                             + rn.answer_generation_time

\* C18: in the record of a run that failed at a stage, the duration of that
\* stage and of every later one is 0; a stage's duration is non-zero only if
\* the stage completed, and then every earlier stage completed as well.
C18_UnreachedDurationsZero ==
    \A i \in 1..Len(StageOrder) :
        /\ rn.failedAt = StageOrder[i] =>
              \A j \in i..Len(StageOrder) : StageDuration(rn, j) = 0
        /\ StageDuration(rn, i) # 0 =>
              \A j \in 1..i : StageOrder[j] \in rn.completed

C18_Witness ==
    /\ rn.pc = "done" /\ rn.failedAt = "answer_synthesis"
    /\ rn.query_execution_time > 0
    /\ rn.answer_generation_time = 0
    /\ Round(rn.now - rn.t0) > 0

(***************************************************************************)
(* Properties of the finalized record, of startup and of the log channels  *)
(***************************************************************************)
\* C17: when db.run or eval raised, the finalized record has result "Error
\* executing query", no success, error set, the SQL prompt and the cleaned
\* SQL as generated ("S", or "" for a bare fence) and no answer prompt; when
\* the answer backend raised, the record holds the cleaned SQL and the
\* canonical result "42", no success, and error set.
C17_ArtifactsPreserved ==
    (last.op \in {"run", "main"} /\ last.log.present) =>
        /\ last.stage \in {"db_run", "eval"} =>
              /\ last.log.result = Some(<<"Error executing query">>)
              /\ ~last.log.success /\ last.log.error.set
              /\ last.log.sql_prompt
              /\ last.log.sql_query \in {Some(<<"S">>), Some(<<>>)}
              /\ ~last.log.nlp_prompt
        /\ last.stage = "nlp_llm" =>
              /\ last.log.sql_query \in {Some(<<"S">>), Some(<<>>)}
              /\ last.log.result = Some(<<"4", "2">>)
              /\ ~last.log.success /\ last.log.error.set

C17_Witness ==
    /\ last.op = "run" /\ last.stage = "db_run"
    /\ last.log.result = Some(<<"Error executing query">>)
    /\ last.log.sql_query = Some(<<"S">>)
    /\ last.log.error.set /\ ~last.log.nlp_prompt

\* C19: constructing an enabled CacheManager over a backing file that is
\* absent or is not a map of entries (not JSON, JSON but no object, not
\* UTF-8) raises nothing and leaves an empty map, in which every get misses.
C19_StartupFromBadFile ==
    (last.op = "construct" /\ last.enabled /\ last.raised # "Exception"
        /\ file.kind # "map")
        => /\ last.raised = ""
           /\ cm.ismap /\ cm.data = EmptyMap
           /\ \A q \in Questions :
                 CacheGet(cm, q).raised = "" /\ ~CacheGet(cm, q).found

\* a line that is a structured record; any other line is a progress line
IsRecord(line) == line = RecordLine
HasRecord(lines) == \E i \in 1..Len(lines) : IsRecord(lines[i])
HasProgress(lines) == \E i \in 1..Len(lines) : ~IsRecord(lines[i])

\* C15: a run that hits the cache calls no backend and no database, hands no
\* record to log_struct, leaves the cache and its file as they were, and logs
\* the one line "Processing: ... (Cached)".
C15_CacheHitShortCircuit ==
    [][(RunStep /\ last'.hit)
          => /\ last'.calls = <<>>
             /\ last'.structs = 0 /\ structCount' = structCount
             /\ cm' = cm /\ file' = file
             /\ console' = Append(console, CachedLine)
             /\ logfile' = Append(logfile, CachedLine)]_vars

C15_Witness ==
    /\ last.op = "run" /\ last.hit /\ last.response.from_cache
    /\ Len(logfile) = 3 /\ logfile[3] = CachedLine
    /\ console = logfile
    /\ structCount = 0

\* C20: neither the console nor the daily log file receives both structured
\* records and progress lines.
C20_LogChannelSeparation ==
    /\ ~(HasRecord(console) /\ HasProgress(console))
    /\ ~(HasRecord(logfile) /\ HasProgress(logfile))

(***************************************************************************)
(* Properties of clear on a disabled store                                 *)
(***************************************************************************)
\* C21: clear on a store constructed with enabled = false leaves the
\* in-memory map empty and, when os.remove goes through, no backing file (a
\* removal that fails leaves the file and raises); get, set and run on such a
\* store leave the backing file as it is.
C21_ClearIgnoresEnabled ==
    [][(nOps' = nOps + 1 /\ ~last'.enabled)
          => /\ last'.op = "clear" =>
                   /\ cm'.data = EmptyMap /\ cm'.ismap /\ ~cm'.enabled
                   /\ IF last'.raised = "" THEN file' = AbsentFile
                      ELSE file' = file /\ file.kind # "absent"
                   /\ last'.removed <=> (file.kind # "absent" /\ last'.raised = "")
             /\ last'.op \in {"get", "set", "run"} => file' = file]_vars

C21_Witness ==
    /\ last.op = "clear" /\ ~last.enabled /\ last.raised = ""
    /\ last.removed
    /\ file = AbsentFile
    /\ cm.data = EmptyMap

====
